---- MODULE Spec2Model ----
(***************************************************************************)
(* Verification model of the beartype configuration cache                  *)
(* (beartype/_conf/confcls.py), of the PEP 484/604 union code factory      *)
(* (beartype/_check/code/pep/codepep484604.py) and of the attribute        *)
(* validator factory IsAttr (beartype/vale/_valeisobj.py).                 *)
(***************************************************************************)
EXTENDS Integers, Sequences, FiniteSets, TLC

(***************************************************************************)
(* Bounds of the model.                                                    *)
(***************************************************************************)
\* Largest number of BeartypeConf objects ever initialised (default included).
MaxConfs == 2

\* Threads calling BeartypeConf(...).
Threads == {1, 2}

\* Largest number of callables decorated in one behaviour.
MaxDecor == 2

\* Largest number of characters of a string subscripting IsAttr.
MaxNameLen == 2

\* Largest number of classes preceding object in a method resolution order.
MaxMro == 3

\* Largest number of sets and lists created by the pool of typed objects.
MaxPooled == 5

(***************************************************************************)
(* Python values.  Every value is a string: "True"/"False" are the bool    *)
(* singletons, "0"/"1" the ints, "None" is None, "x" is a str, "O1" a      *)
(* BeartypeStrategy member, "Default" the private fake warning category    *)
(* _BeartypeConfReduceDecoratorExceptionToWarningDefault, "UserWarning" a  *)
(* Warning subclass and "int" a class that is no Warning subclass.         *)
(***************************************************************************)
\* Python's == (and hash agreement) on these values: bool is an int subclass.
PyEq(a, b) ==
    \/ a = b
    \/ {a, b} = {"0", "False"}
    \/ {a, b} = {"1", "True"}

\* isinstance(v, bool)
IsBool(v) == v \in {"True", "False"}

\* isinstance(v, NoneTypeOr[bool])
IsNoneTypeOrBool(v) == v \in {"True", "False", "None"}

\* isinstance(v, BeartypeStrategy)
IsBeartypeStrategy(v) == v \in {"O1", "On"}

\* is_type_subclass(v, Warning)
IsWarningSubclass(v) == v \in {"Default", "UserWarning"}

\* Values of ${BEARTYPE_IS_COLOR}: "unset" is the undefined variable.
ShellVarValues == {"unset", "True", "bad"}

\* SHELL_VAR_CONF_IS_COLOR_VALUE_TO_OBJ
ShellVarRecognized == {"True", "False", "None"}

(***************************************************************************)
(* Parameters of BeartypeConf.__new__, in the order of conf_args:          *)
(* claw_is_pep526, is_color, is_debug, is_pep484_tower, strategy,          *)
(* warning_cls_on_decorator_exception.                                     *)
(***************************************************************************)
DefaultArgs == <<"True", "None", "False", "False", "O1", "Default">>

\* Values a caller passes for each parameter.
ParamValues == <<
    {"True"},
    {"None", "True", "False", "x"},
    {"False", "True", "0"},
    {"False", "x"},
    {"O1", "x"},
    {"Default", "None", "UserWarning", "int"} >>

\* Calls that pass at most one parameter explicitly.
ArgsDomain ==
    { a \in ParamValues[1] \X ParamValues[2] \X ParamValues[3] \X
            ParamValues[4] \X ParamValues[5] \X ParamValues[6] :
        Cardinality({ i \in 1..6 : a[i] # DefaultArgs[i] }) <= 1 }

\* Equality of two conf_args tuples as the dictionary lookup sees it.
ArgsEq(a, b) == \A i \in 1..6 : PyEq(a[i], b[i])

VARIABLES
    shell_var,                   \* os.environ value of ${BEARTYPE_IS_COLOR}
    beartype_conf_lock,          \* 0 when free, else the thread holding it
    beartype_conf_args_to_conf,  \* dict: conf_args tuple -> object id
    confs,                       \* heap: object id -> BeartypeConf slots
    pc,                          \* thread -> position in __new__
    conf_args,                   \* thread -> local conf_args tuple
    result,                      \* thread -> returned object id (0: none)
    raised,                      \* thread -> exception raised ("none")
    conf_unset                   \* instances allocated by calls that raised
                                 \* before initialising them: the n-th is
                                 \* the object -n

cvars == << shell_var, beartype_conf_lock, beartype_conf_args_to_conf, confs,
            pc, conf_args, result, raised, conf_unset >>

VARIABLES
    hints_meta,          \* queue of the hints discovered by the search
    hints_meta_index,    \* index of the currently visited hint (0: idle)
    func_code,           \* code generated for each visited hint
    hints_conf,          \* hints_meta.conf
    union_args_cache,    \* memoized flattened child hints of unions
    func_typed,          \* the wrappers generated so far
    func_raised,         \* the decorations that raised an exception
    pool                 \* objects acquired from and released to the pool

uvars == << hints_meta, hints_meta_index, func_code, hints_conf,
            union_args_cache,
            func_typed, func_raised, pool >>

VARIABLES
    vale_args,           \* the object last subscripting IsAttr
    vale_out,            \* what that subscription raised or returned
    vale_pith,           \* the object last passed to the validator
    vale_verdict         \* what the validator answered on that object

vvars == << vale_args, vale_out, vale_pith, vale_verdict >>

VARIABLES
    generic_hint,        \* the object last passed to is_hint_pep484585_generic
    generic_result       \* what the tester returned on it

gvars == << generic_hint, generic_result >>

VARIABLES
    pool_key_to_pool,    \* class -> the released objects of that class
    pool_objs,           \* object id -> the set or list created by the pool
    request              \* thread -> position and locals of its request

pvars == << pool_key_to_pool, pool_objs, request >>

vars == << cvars, uvars, vvars, gvars, pvars >>

(***************************************************************************)
(* BeartypeConf.__new__                                                    *)
(***************************************************************************)
\* Mutant: the membership test never finds the key.
ConfCached_Never(d, a) == FALSE

\* "conf_args in beartype_conf_args_to_conf"
ConfCached(d, a) == \E k \in DOMAIN d : ArgsEq(k, a)

\* "beartype_conf_args_to_conf[conf_args]"
ConfGet(d, a) == d[CHOOSE k \in DOMAIN d : ArgsEq(k, a)]

\* Mutant: caching a configuration evicts every other entry.
ConfPut_Evicting(d, a, id) == (a :> id)

\* "beartype_conf_args_to_conf[conf_args] = self": an equal key keeps its
\* key object and has its value replaced, a new key is inserted.
ConfPut(d, a, id) ==
    IF \E k \in DOMAIN d : ArgsEq(k, a)
    THEN [d EXCEPT ![CHOOSE k \in DOMAIN d : ArgsEq(k, a)] = id]
    ELSE d @@ (a :> id)

\* The chain of elif validations: TRUE when none of them raises.
ArgsValid(a) ==
    /\ IsBool(a[1])
    /\ IsNoneTypeOrBool(a[2])
    /\ IsBool(a[3])
    /\ IsBool(a[4])
    /\ a[6] = "None" \/ IsWarningSubclass(a[6])
    /\ IsBeartypeStrategy(a[5])

\* The slots of the new instance, given the passed parameters and the value
\* of the shell variable (which is recognized or unset here).
NewConf(a, env) ==
    [ _claw_is_pep526 |-> a[1],
      _is_color |-> IF env # "unset" THEN env ELSE a[2],
      _is_debug |-> a[3],
      _is_pep484_tower |-> a[4],
      _strategy |-> a[5],
      _warning_cls_on_decorator_exception |->
          IF a[6] = "Default" THEN "None" ELSE a[6],
      _is_warning_cls_on_decorator_exception_set |-> a[6] # "Default",
      _conf_args |-> a ]

\* The keyword values printed by BeartypeConf.__repr__, as a conf_args tuple.
Repr(c) ==
    << c._claw_is_pep526, c._is_color, c._is_debug, c._is_pep484_tower,
       c._strategy, c._warning_cls_on_decorator_exception >>

\* hash() of a value: equal values hash equal, so False hashes as 0 and True
\* as 1.
PyHash(v) == IF v = "False" THEN "0" ELSE IF v = "True" THEN "1" ELSE v

\* hash() of a conf_args tuple, computed from the hashes of its items.
PyHashTuple(a) == [i \in 1..Len(a) |-> PyHash(a[i])]

\* Mutant: configurations are compared by their stored slots.
BeartypeConf_eq_Slots(self, other) == ArgsEq(Repr(self), Repr(other))

\* BeartypeConf.__eq__ on two configurations.
BeartypeConf_eq(self, other) == ArgsEq(self._conf_args, other._conf_args)

\* BeartypeConf.__hash__
BeartypeConf_hash(self) == PyHashTuple(self._conf_args)

\* Mutant: a raise inside the with block leaves the lock held by the thread.
LockAfterRaise_Held(t) == t

\* "with beartype_conf_lock": an exception leaving the block releases the
\* lock.
LockAfterRaise(t) == 0

\* Mutant: the lock is entered even while another thread holds it.
LockFree_Always(lock) == TRUE

\* "with beartype_conf_lock": the lock is entered only when free.
LockFree(lock) == lock = 0

InitConf ==
    /\ shell_var \in ShellVarValues \ {"bad"}
    /\ beartype_conf_lock = 0
    /\ confs = << NewConf(DefaultArgs, shell_var) >>
    /\ beartype_conf_args_to_conf = (DefaultArgs :> 1)
    /\ pc = [t \in Threads |-> "idle"]
    /\ conf_args = [t \in Threads |-> << >>]
    /\ result = [t \in Threads |-> 0]
    /\ raised = [t \in Threads |-> "none"]
    /\ conf_unset = 0

\* Arguments of a call: at most one explicit parameter, or the keyword values
\* printed by the repr() of a live configuration.
CallArgs == ArgsDomain \cup { Repr(confs[i]) : i \in 1..Len(confs) }

\* Lines 406-413: a thread calls BeartypeConf(...) and builds conf_args.
Call(t, a) ==
    /\ pc[t] = "idle"
    /\ conf_args' = [conf_args EXCEPT ![t] = a]
    /\ pc' = [pc EXCEPT ![t] = "lock"]
    /\ UNCHANGED << shell_var, beartype_conf_lock,
                    beartype_conf_args_to_conf, confs, result, raised,
                    conf_unset >>
    /\ UNCHANGED << uvars, vvars, gvars, pvars >>

\* Lines 423-491: enter the lock, return the cached configuration if any
\* (leaving the lock), else validate the parameters (leaving the lock when
\* raising).
Enter(t) ==
    /\ pc[t] = "lock"
    /\ LockFree(beartype_conf_lock)
    /\ IF ConfCached(beartype_conf_args_to_conf, conf_args[t])
       THEN /\ result' = [result EXCEPT ![t] =
                   ConfGet(beartype_conf_args_to_conf, conf_args[t])]
            /\ pc' = [pc EXCEPT ![t] = "done"]
            /\ UNCHANGED << beartype_conf_lock, raised >>
       ELSE IF ~ArgsValid(conf_args[t])
       THEN /\ raised' = [raised EXCEPT ![t] = "BeartypeConfException"]
            /\ pc' = [pc EXCEPT ![t] = "done"]
            /\ beartype_conf_lock' = LockAfterRaise(t)
            /\ UNCHANGED result
       ELSE /\ Cardinality(DOMAIN beartype_conf_args_to_conf) < MaxConfs
            /\ conf_unset < MaxConfs
            /\ beartype_conf_lock' = t
            /\ pc' = [pc EXCEPT ![t] = "new"]
            /\ UNCHANGED << result, raised >>
    /\ UNCHANGED << shell_var, beartype_conf_args_to_conf, confs, conf_args,
                    conf_unset >>
    /\ UNCHANGED << uvars, vvars, gvars, pvars >>

\* Lines 495-629: allocate the new instance, default the warning category,
\* apply the shell variable (raising on an unrecognized value, which leaves
\* the instance without slots), initialise the slots, cache the instance and
\* return it.
New(t) ==
    /\ pc[t] = "new"
    /\ IF shell_var # "unset" /\ shell_var \notin ShellVarRecognized
       THEN /\ raised' = [raised EXCEPT ![t] = "BeartypeConfShellVarException"]
            /\ conf_unset' = conf_unset + 1
            /\ beartype_conf_lock' = LockAfterRaise(t)
            /\ UNCHANGED << beartype_conf_args_to_conf, confs, result >>
       ELSE /\ confs' = Append(confs, NewConf(conf_args[t], shell_var))
            /\ beartype_conf_args_to_conf' =
                   ConfPut(beartype_conf_args_to_conf, conf_args[t],
                           Len(confs) + 1)
            /\ result' = [result EXCEPT ![t] = Len(confs) + 1]
            /\ beartype_conf_lock' = 0
            /\ UNCHANGED << raised, conf_unset >>
    /\ pc' = [pc EXCEPT ![t] = "done"]
    /\ UNCHANGED << shell_var, conf_args >>
    /\ UNCHANGED << uvars, vvars, gvars, pvars >>

\* The caller drops the returned configuration (or handles the exception).
Return(t) ==
    /\ pc[t] = "done"
    /\ pc' = [pc EXCEPT ![t] = "idle"]
    /\ conf_args' = [conf_args EXCEPT ![t] = << >>]
    /\ result' = [result EXCEPT ![t] = 0]
    /\ raised' = [raised EXCEPT ![t] = "none"]
    /\ UNCHANGED << shell_var, beartype_conf_lock,
                    beartype_conf_args_to_conf, confs, conf_unset >>
    /\ UNCHANGED << uvars, vvars, gvars, pvars >>

\* The process environment changes ${BEARTYPE_IS_COLOR}.
SetShellVar(v) ==
    /\ v # shell_var
    /\ shell_var' = v
    /\ UNCHANGED << beartype_conf_lock, beartype_conf_args_to_conf, confs,
                    pc, conf_args, result, raised, conf_unset >>
    /\ UNCHANGED << uvars, vvars, gvars, pvars >>

Next ==
    \/ \E t \in Threads, a \in CallArgs : Call(t, a)
    \/ \E t \in Threads : Enter(t)
    \/ \E t \in Threads : New(t)
    \/ \E t \in Threads : Return(t)
    \/ \E v \in ShellVarValues : SetShellVar(v)


(***************************************************************************)
(* Type hints.  A hint is a record: sign "None" is a PEP-noncompliant      *)
(* class, sign "Union" a PEP 484/604 union of its args, sign "List" the    *)
(* PEP 585 generic list[args[1]].                                          *)
(***************************************************************************)
Cls(n) == [sign |-> "None", name |-> n, args |-> << >>]
ListOf(h) == [sign |-> "List", name |-> "list", args |-> << h >>]
Union(cs) == [sign |-> "Union", name |-> "Union", args |-> cs]

\* HINT_SIGNS_UNION
HINT_SIGNS_UNION == {"Union", "Optional"}

\* is_hint_pep(): a hint is PEP-compliant when it is identified by a sign.
is_hint_pep(h) == h.sign # "None"

\* get_hint_pep_sign_or_none()
get_hint_pep_sign_or_none(h) == h.sign

\* get_hint_pep_args()
get_hint_pep_args(h) == h.args

\* HINTS_IGNORABLE_SHALLOW: hints that every object satisfies.
HINTS_IGNORABLE_SHALLOW == { Cls("object") }

\* A hint that sanify_hint_child() rejects and a class that
\* add_func_scope_type_or_types() rejects.
HINT_UNSUPPORTED == Cls("unsupported")
TYPE_UNCHECKABLE == Cls("uncheckable")

\* Configurations seen by the code factory: the is_pep484_tower field.
Confs == { [is_pep484_tower |-> b] : b \in {"False", "True"} }
CONF_DEFAULT == [is_pep484_tower |-> "False"]

\* HintOrHintSanifiedData: a bare hint has the empty type variable table
\* "empty"; HintSanifiedData carries a non-empty one.
Sane(h, tv) == [hint |-> h, typevar_to_hint |-> tv]
IsHintSanifiedData(x) == x.typevar_to_hint # "empty"

\* get_hint_or_sane_hint()
get_hint_or_sane_hint(x) == x.hint

\* HintSanifiedData.permute(hint=...)
permute(x, h) == [x EXCEPT !.hint = h]

\* sanify_hint_child(): under is_pep484_tower the float class is expanded to
\* the union float | int; metadata is returned when the type variable table
\* of the parent is non-empty.
sanify_hint_child(h, conf, tv) ==
    Sane(IF conf.is_pep484_tower = "True" /\ h = Cls("float")
         THEN Union(<< Cls("float"), Cls("int") >>)
         ELSE h,
         tv)

\* Whether sanify_hint_child() raises on this child hint.
sanify_hint_child_raises(h) == h = HINT_UNSUPPORTED

(***************************************************************************)
(* The pool of reusable sets and lists: the numbers of objects acquired    *)
(* from it and released to it so far.                                      *)
(***************************************************************************)
\* acquire_object_typed(), n times
acquire_object_typed(p, n) == [p EXCEPT !.acquired = @ + n]

\* release_object_typed(), n times
release_object_typed(p, n) == [p EXCEPT !.released = @ + n]

(***************************************************************************)
(* _get_hint_pep484604_union_args_flattened                                *)
(***************************************************************************)
\* Mutant: the assertion is not made.
UnionArgsAssert_Skipped(hint_childs) == TRUE

\* Lines 365-367: assert hint_childs
UnionArgsAssert(hint_childs) == Len(hint_childs) > 0

\* Lines 352-425: the exception the body of the getter raises for this
\* union, "none" when it returns.
UnionArgsRaised(hint) ==
    LET hint_childs == get_hint_pep_args(hint)
    IN  IF ~UnionArgsAssert(hint_childs) THEN "AssertionError"
        ELSE IF \E n \in 1..Len(hint_childs) :
                    sanify_hint_child_raises(hint_childs[n])
        THEN "BeartypeDecorHintNonpepException"
        ELSE "none"

\* Lines 365-486: the pool after the body of the getter ran on this union:
\* the list is acquired after the assertion (383-385) and released after
\* the loop (486).
UnionArgsPool(p, hint) ==
    IF UnionArgsRaised(hint) = "AssertionError" THEN p
    ELSE IF UnionArgsRaised(hint) # "none" THEN acquire_object_typed(p, 1)
    ELSE release_object_typed(acquire_object_typed(p, 1), 1)

\* Mutant: the child hints of a child union that are themselves unions are
\* expanded in turn.
FlattenChild_TwoLevels(hint_or_sane_child) ==
    LET hint_child == get_hint_or_sane_hint(hint_or_sane_child)
        hint_child_childs == get_hint_pep_args(hint_child)
        grand(k) == IF get_hint_pep_sign_or_none(hint_child_childs[k])
                           \in HINT_SIGNS_UNION
                    THEN get_hint_pep_args(hint_child_childs[k])
                    ELSE << hint_child_childs[k] >>
        all == IF Len(hint_child_childs) = 2
               THEN grand(1) \o grand(2)
               ELSE hint_child_childs
    IN  IF get_hint_pep_sign_or_none(hint_child) \in HINT_SIGNS_UNION
        THEN [k \in 1..Len(all) |-> permute(hint_or_sane_child, all[k])]
        ELSE << hint_or_sane_child >>

\* Mutant: a child union is appended as is rather than expanded.
FlattenChild_Unexpanded(hint_or_sane_child) == << hint_or_sane_child >>

\* Lines 448-474: what one sanified direct child contributes to the list
\* hint_or_sane_childs_new.
FlattenChild(hint_or_sane_child) ==
    LET hint_child == get_hint_or_sane_hint(hint_or_sane_child)
        hint_child_childs == get_hint_pep_args(hint_child)
    IN  IF get_hint_pep_sign_or_none(hint_child) \in HINT_SIGNS_UNION
        THEN IF IsHintSanifiedData(hint_or_sane_child)
             THEN [k \in 1..Len(hint_child_childs) |->
                      permute(hint_or_sane_child, hint_child_childs[k])]
             ELSE [k \in 1..Len(hint_child_childs) |->
                      Sane(hint_child_childs[k], "empty")]
        ELSE << hint_or_sane_child >>

\* Lines 400-478: the while loop from index hint_childs_index on, appending
\* to hint_or_sane_childs_new.
RECURSIVE FlattenFrom(_, _, _, _, _)
FlattenFrom(hint_childs, hint_childs_index, conf, tv, hint_or_sane_childs_new) ==
    IF hint_childs_index > Len(hint_childs)
    THEN hint_or_sane_childs_new
    ELSE FlattenFrom(hint_childs, hint_childs_index + 1, conf, tv,
             hint_or_sane_childs_new \o
             FlattenChild(sanify_hint_child(
                 hint_childs[hint_childs_index], conf, tv)))

\* Mutant: the list of new child hints is frozen in reverse order.
UnionArgsFlattened_Reversed(hint, conf, tv) ==
    LET childs == FlattenFrom(get_hint_pep_args(hint), 1, conf, tv, << >>)
    IN  [ n \in 1..Len(childs) |-> childs[Len(childs) + 1 - n] ]

\* Lines 345-490: the body of the getter for a union subscripted by one or
\* more child hints: the tuple frozen from hint_or_sane_childs_new.
UnionArgsFlattened(hint, conf, tv) ==
    FlattenFrom(get_hint_pep_args(hint), 1, conf, tv, << >>)

(***************************************************************************)
(* Generated code.  The code of one visited hint is a sequence of tokens;  *)
(* a "child" token is the placeholder of an enqueued child hint.  The      *)
(* pith of a token is "expr" (the current pith expression), "assign" (the  *)
(* assignment expression binding the pith to its local variable), "var"    *)
(* (that local variable) or "item" (an item of the current pith).          *)
(***************************************************************************)
Tok(k) == [kind |-> k, pith |-> "expr", types |-> {}, child |-> 0]

\* CODE_PEP484604_UNION_PREFIX
CODE_PEP484604_UNION_PREFIX == << Tok("(") >>

\* CODE_PEP484604_UNION_SUFFIX
CODE_PEP484604_UNION_SUFFIX == << Tok(")") >>

\* CODE_PEP484604_UNION_CHILD_NONPEP_format: an isinstance() test against a
\* tuple of types, followed by " or".
CODE_PEP484604_UNION_CHILD_NONPEP_format(pith_curr_expr, hint_curr_expr) ==
    << [kind |-> "isinstance", pith |-> pith_curr_expr,
        types |-> hint_curr_expr, child |-> 0],
       Tok("or") >>

\* CODE_PEP484604_UNION_CHILD_PEP_format: the placeholder of a child hint
\* checking the pith expression pith_expr, followed by " or".
CODE_PEP484604_UNION_CHILD_PEP_format(hint_child_placeholder, pith_expr) ==
    << [kind |-> "child", pith |-> pith_expr, types |-> {},
        child |-> hint_child_placeholder],
       Tok("or") >>

\* hints_meta.add_func_scope_type_or_types(): the tuple of these types.
add_func_scope_type_or_types(hint_childs_nonpep) ==
    { h.name : h \in hint_childs_nonpep }

\* Whether add_func_scope_type_or_types() raises on these types.
add_func_scope_type_or_types_raises(hint_childs_nonpep) ==
    TYPE_UNCHECKABLE \in hint_childs_nonpep

(***************************************************************************)
(* make_hint_pep484604_check_expr                                          *)
(***************************************************************************)
\* The items of a tuple, as a set.
Range(s) == { s[i] : i \in 1..Len(s) }

\* Mutant: a PEP-compliant child hint originating from a class (list[int]
\* from list) is also filtered into the PEP-noncompliant set as that class.
HintChildsNonpep_WithOrigin(hint_or_sane_childs) ==
    { Cls(get_hint_or_sane_hint(y).name) : y \in
        { z \in Range(hint_or_sane_childs) :
            get_hint_or_sane_hint(z).sign \notin HINT_SIGNS_UNION } }

\* Lines 149-182, else branch: the set of PEP-noncompliant child hints.
HintChildsNonpep(hint_or_sane_childs) ==
    { get_hint_or_sane_hint(x) : x \in
        { y \in Range(hint_or_sane_childs) :
            ~is_hint_pep(get_hint_or_sane_hint(y)) } }

\* Mutant: every child hint is filtered into the PEP-compliant set.
HintOrSaneChildsPep_All(hint_or_sane_childs) == Range(hint_or_sane_childs)

\* Lines 149-182, if branch: the set of PEP-compliant child hints (with
\* their metadata).
HintOrSaneChildsPep(hint_or_sane_childs) ==
    { y \in Range(hint_or_sane_childs) :
        is_hint_pep(get_hint_or_sane_hint(y)) }

\* The orders in which a set can be iterated.
Orderings(S) ==
    { s \in [1..Cardinality(S) -> S] :
        \A i, j \in 1..Cardinality(S) : s[i] = s[j] => i = j }

\* Lines 193-233: the code type-checking the PEP-noncompliant child hints.
UnionNonpepCode(hint_childs_nonpep, hint_or_sane_childs_pep) ==
    IF hint_childs_nonpep # {}
    THEN CODE_PEP484604_UNION_CHILD_NONPEP_format(
             IF hint_or_sane_childs_pep # {} THEN "assign" ELSE "expr",
             add_func_scope_type_or_types(hint_childs_nonpep))
    ELSE << >>

\* Mutant: every PEP-compliant child hint is passed the assignment
\* expression.
ChildPithExpr_AlwaysAssign(hint_childs_nonpep, hint_or_sane_child_pep_index) ==
    "assign"

\* Lines 246-275: the pith expression passed to the PEP-compliant child hint
\* of 0-based index hint_or_sane_child_pep_index.
ChildPithExpr(hint_childs_nonpep, hint_or_sane_child_pep_index) ==
    IF hint_childs_nonpep # {} \/ hint_or_sane_child_pep_index # 0
    THEN "var"
    ELSE "assign"

\* Lines 238-278: the code type-checking the PEP-compliant child hints
\* iterated in the order pep_order, the first of which is enqueued after
\* hints_meta_len frames.
UnionPepCode(hint_childs_nonpep, pep_order, hints_meta_len) ==
    [ i \in 1..(2 * Len(pep_order)) |->
        CODE_PEP484604_UNION_CHILD_PEP_format(
            hints_meta_len + ((i + 1) \div 2),
            ChildPithExpr(hint_childs_nonpep, ((i + 1) \div 2) - 1)
        )[2 - (i % 2)] ]

\* Lines 238-278: the child frames enqueued by enqueue_hint_or_sane_child().
UnionPepFrames(hint_childs_nonpep, pep_order) ==
    [ i \in 1..Len(pep_order) |->
        [ hint_or_sane |-> pep_order[i],
          pith_expr |-> ChildPithExpr(hint_childs_nonpep, i - 1) ] ]

\* Mutant: the " or" appended by the last child hint is not stripped.
UnionCodeMunged_Unstripped(func_curr_code) ==
    IF func_curr_code # CODE_PEP484604_UNION_PREFIX
    THEN func_curr_code \o CODE_PEP484604_UNION_SUFFIX
    ELSE func_curr_code

\* Lines 285-299: strip the " or" appended by the last child hint and append
\* the suffix, unless the code is still the bare prefix.
UnionCodeMunged(func_curr_code) ==
    IF func_curr_code # CODE_PEP484604_UNION_PREFIX
    THEN SubSeq(func_curr_code, 1, Len(func_curr_code) - 1)
             \o CODE_PEP484604_UNION_SUFFIX
    ELSE func_curr_code

\* Mutant: the PEP-compliant child hints are emitted before the isinstance()
\* test of the PEP-noncompliant ones.
UnionCode_PepFirst(hint_childs_nonpep, pep_order, hints_meta_len) ==
    UnionCodeMunged(
        CODE_PEP484604_UNION_PREFIX
        \o UnionPepCode(hint_childs_nonpep, pep_order, hints_meta_len)
        \o UnionNonpepCode(hint_childs_nonpep, Range(pep_order)))

\* Lines 184-298: the code generated for a union.
UnionCode(hint_childs_nonpep, pep_order, hints_meta_len) ==
    UnionCodeMunged(
        CODE_PEP484604_UNION_PREFIX
        \o UnionNonpepCode(hint_childs_nonpep, Range(pep_order))
        \o UnionPepCode(hint_childs_nonpep, pep_order, hints_meta_len))

(***************************************************************************)
(* Calling a generated wrapper.  A pith is "5" (an int), "x" (a str),      *)
(* "1.5" (a float) or a list of at most one such item.                     *)
(***************************************************************************)
PithValues == {"5", "x", "1.5", "[5]", "[x]", "[]"}

\* type(pith).__name__
TypeOf(v) ==
    CASE v = "5" -> "int"
      [] v = "x" -> "str"
      [] v = "1.5" -> "float"
      [] OTHER -> "list"

\* isinstance(pith, cls): every object is an instance of object.
IsInstance(v, name) == name = "object" \/ TypeOf(v) = name

\* The item of a non-empty list that the wrapper samples.
ItemOf(v) == IF v = "[5]" THEN "5" ELSE "x"

\* A union expression parses when it is "(" item ("or" item)* ")".
UnionCodeParses(c) ==
    /\ Len(c) >= 3 /\ Len(c) % 2 = 1
    /\ c[1].kind = "(" /\ c[Len(c)].kind = ")"
    /\ \A i \in 2..(Len(c) - 1) :
           IF i % 2 = 0
           THEN c[i].kind \in {"isinstance", "child"}
           ELSE c[i].kind = "or"

\* The verdict of the code of frame k on the pith v: "accept", "reject",
\* "SyntaxError" when the expression does not parse and "NameError" when
\* the local pith variable is read before it is assigned.
RECURSIVE EvalFrame(_, _, _), EvalTok(_, _, _), EvalOr(_, _, _, _, _),
          EvalAnd(_, _, _, _)
EvalFrame(code, k, v) ==
    LET c == code[k]
    IN  IF c[1].kind = "("
        THEN IF c = CODE_PEP484604_UNION_PREFIX THEN "accept"
             ELSE IF ~UnionCodeParses(c) THEN "SyntaxError"
             ELSE EvalOr(code, c, 2, FALSE, v)
        ELSE EvalAnd(code, c, 1, v)

EvalTok(code, t, v) ==
    IF t.kind = "isinstance"
    THEN IF \E name \in t.types : IsInstance(v, name)
         THEN "accept" ELSE "reject"
    ELSE IF t.pith = "item"
    THEN IF v = "[]" THEN "accept" ELSE EvalFrame(code, t.child, ItemOf(v))
    ELSE EvalFrame(code, t.child, v)

\* Short-circuit evaluation, left to right, of the items of a union from
\* position i on; bound tells whether the local pith variable is assigned.
EvalOr(code, c, i, bound, v) ==
    IF i > Len(c) - 1 THEN "reject"
    ELSE IF c[i].pith = "var" /\ ~bound THEN "NameError"
    ELSE LET r == EvalTok(code, c[i], v)
         IN  IF r # "reject" THEN r
             ELSE EvalOr(code, c, i + 2, bound \/ c[i].pith = "assign", v)

\* Evaluation of item "and" item ... from position i on.
EvalAnd(code, c, i, v) ==
    IF i > Len(c) THEN "accept"
    ELSE LET r == EvalTok(code, c[i], v)
         IN  IF r # "accept" THEN r ELSE EvalAnd(code, c, i + 2, v)

\* The verdict of a wrapper on the value passed to it.
Verdict(func, v) == EvalFrame(func.code, 1, v)

\* Whether the value v satisfies the hint h under the configuration conf.
RECURSIVE Satisfies(_, _, _)
Satisfies(v, h, conf) ==
    CASE h.sign = "None" ->
            \/ IsInstance(v, h.name)
            \/ /\ conf.is_pep484_tower = "True"
               /\ h.name = "float" /\ TypeOf(v) = "int"
      [] h.sign = "List" ->
            /\ TypeOf(v) = "list"
            /\ v = "[]" \/ Satisfies(ItemOf(v), h.args[1], conf)
      [] OTHER ->
            \E i \in 1..Len(h.args) : Satisfies(v, h.args[i], conf)

(***************************************************************************)
(* Decoration: the breadth-first search over the hints of one callable.    *)
(***************************************************************************)
\* Children of the unions annotating decorated callables.
HintsA == {Cls("int"), ListOf(Cls("int"))}
HintsB == {Cls("str"), Cls("float")}
HintsC == {Cls("float"), ListOf(Cls("int"))}

\* Union(A, Union(B, C)) and Union(A, B, C)
UnionNested(a, b, c) == Union(<< a, Union(<< b, c >>) >>)
UnionFlat(a, b, c) == Union(<< a, b, c >>)

\* Hints annotating decorated callables.
Hints ==
    { Cls("int"), ListOf(Cls("int")),
      Union(<< Cls("int"), Cls("str") >>),
      Union(<< Cls("int"), Cls("float") >>),
      Union(<< Cls("int"), ListOf(Cls("int")) >>),
      Union(<< Cls("int"), Cls("object") >>),
      Union(<< Cls("float"), ListOf(Cls("int")) >>),
      Union(<< >>),
      ListOf(Union(<< >>)),
      Union(<< Cls("int"), HINT_UNSUPPORTED >>),
      Union(<< Cls("int"), TYPE_UNCHECKABLE >>),
      Union(<< ListOf(Cls("str")), ListOf(Cls("int")) >>),
      Union(<< Cls("int"),
               Union(<< Cls("str"),
                        Union(<< Cls("float"), ListOf(Cls("int")) >>) >>) >>) }
    \cup { UnionNested(a, b, c) : a \in HintsA, b \in HintsB, c \in HintsC }
    \cup { UnionFlat(a, b, c) : a \in HintsA, b \in HintsB, c \in HintsC }

\* The currently visited hint.
hint_curr_meta == hints_meta[hints_meta_index]

InitUnion ==
    /\ hints_meta = << >>
    /\ hints_meta_index = 0
    /\ func_code = << >>
    /\ hints_conf = CONF_DEFAULT
    /\ union_args_cache = {}
    /\ func_typed = << >>
    /\ func_raised = << >>
    /\ pool = [acquired |-> 0, released |-> 0]

\* @beartype(conf=c) decorates a callable annotated by the hint h.
Decorate(h, c) ==
    /\ hints_meta_index = 0
    /\ Len(func_typed) + Len(func_raised) < MaxDecor
    /\ hints_meta' = << [hint_or_sane |-> Sane(h, "empty"),
                         pith_expr |-> "expr"] >>
    /\ hints_meta_index' = 1
    /\ func_code' = << >>
    /\ hints_conf' = c
    /\ UNCHANGED << union_args_cache, func_typed, func_raised, pool >>
    /\ UNCHANGED << cvars, vvars, gvars, pvars >>

\* A hint is being visited.
Visiting == hints_meta_index \in 1..Len(hints_meta)

\* An exception leaves the code factory with the code written so far and
\* the pool p: the decoration is abandoned.
Raise(exception, code, p) ==
    /\ func_raised' = Append(func_raised,
           [hint |-> hints_meta[1].hint_or_sane.hint, conf |-> hints_conf,
            exception |-> exception, frames |-> hints_meta,
            index |-> hints_meta_index, code |-> code])
    /\ pool' = p
    /\ hints_meta' = << >>
    /\ hints_meta_index' = 0
    /\ func_code' = << >>
    /\ hints_conf' = CONF_DEFAULT
    /\ UNCHANGED func_typed

\* Mutant: the visited union is flattened in place, its child tuple being
\* replaced by the flattened child hints.
HintsMetaEnqueued_InPlace(queue, index, hint_or_sane_childs, frames) ==
    [queue EXCEPT ![index].hint_or_sane.hint.args =
        [n \in 1..Len(hint_or_sane_childs) |->
            get_hint_or_sane_hint(hint_or_sane_childs[n])]] \o frames

\* Lines 123-278: the queue after the factory ran on the hint of this index:
\* the flattened child hints live in their own tuple and the frames of the
\* PEP-compliant ones are enqueued (243) behind the hints already there.
HintsMetaEnqueued(queue, index, hint_or_sane_childs, frames) ==
    queue \o frames

\* Line 123: the one argument of the memoized getter is the hints_meta
\* object, i.e. the queue, its visited index and its configuration.
HintsMetaArg ==
    [queue |-> hints_meta, index |-> hints_meta_index, conf |-> hints_conf]

\* Line 302, @callable_cached: the results memoized for this argument.
UnionArgsCached(cache, arg) == { e \in cache : e.hints_meta = arg }

\* Line 123: the memoized call of _get_hint_pep484604_union_args_flattened.
UnionArgsGet(cache, arg, hint, tv) ==
    IF UnionArgsCached(cache, arg) # {}
    THEN (CHOOSE e \in UnionArgsCached(cache, arg) : TRUE).value
    ELSE UnionArgsFlattened(hint, arg.conf, tv)

\* make_hint_pep484604_check_expr(hints_meta): the visited hint is a union.
MakeHintPep484604CheckExpr ==
    /\ Visiting
    /\ get_hint_pep_sign_or_none(hint_curr_meta.hint_or_sane.hint)
           \in HINT_SIGNS_UNION
    /\ LET hint == hint_curr_meta.hint_or_sane.hint
           cached == UnionArgsCached(union_args_cache, HintsMetaArg) # {}
           exception == IF cached THEN "none" ELSE UnionArgsRaised(hint)
           pool_got == IF cached THEN pool ELSE UnionArgsPool(pool, hint)
       IN  IF exception # "none"
           THEN /\ Raise(exception, func_code, pool_got)
                /\ UNCHANGED union_args_cache
           ELSE LET hint_or_sane_childs ==
                        UnionArgsGet(union_args_cache, HintsMetaArg, hint,
                            hint_curr_meta.hint_or_sane.typevar_to_hint)
                    hint_childs_nonpep ==
                        HintChildsNonpep(hint_or_sane_childs)
                    hint_or_sane_childs_pep ==
                        HintOrSaneChildsPep(hint_or_sane_childs)
                    pool_sets == acquire_object_typed(pool_got, 2)
                IN  /\ union_args_cache' = union_args_cache \cup
                           { [hints_meta |-> HintsMetaArg, hint |-> hint,
                              conf |-> hints_conf,
                              value |-> hint_or_sane_childs] }
                    /\ IF add_func_scope_type_or_types_raises(
                              hint_childs_nonpep)
                       THEN Raise("BeartypeDecorHintNonpepException",
                                Append(func_code,
                                       CODE_PEP484604_UNION_PREFIX),
                                pool_sets)
                       ELSE /\ \E pep_order \in
                                   Orderings(hint_or_sane_childs_pep) :
                                   /\ func_code' = Append(func_code,
                                          UnionCode(hint_childs_nonpep,
                                              pep_order, Len(hints_meta)))
                                   /\ hints_meta' = HintsMetaEnqueued(
                                          hints_meta, hints_meta_index,
                                          hint_or_sane_childs,
                                          UnionPepFrames(hint_childs_nonpep,
                                                         pep_order))
                            /\ hints_meta_index' = hints_meta_index + 1
                            /\ pool' = release_object_typed(pool_sets, 2)
                            /\ UNCHANGED << hints_conf, func_typed,
                                            func_raised >>
    /\ UNCHANGED << cvars, vvars, gvars, pvars >>

\* The visited hint is a PEP-noncompliant class: an isinstance() test.
MakeHintClassCheckExpr ==
    /\ Visiting
    /\ get_hint_pep_sign_or_none(hint_curr_meta.hint_or_sane.hint) = "None"
    /\ func_code' = Append(func_code,
           << [kind |-> "isinstance", pith |-> hint_curr_meta.pith_expr,
               types |-> {hint_curr_meta.hint_or_sane.hint.name},
               child |-> 0] >>)
    /\ hints_meta_index' = hints_meta_index + 1
    /\ UNCHANGED << hints_meta, hints_conf, union_args_cache, func_typed,
                    func_raised, pool >>
    /\ UNCHANGED << cvars, vvars, gvars, pvars >>

\* The visited hint is list[T]: an isinstance() test and the check of one
\* item of the list against the sanified child hint T.
MakeHintListCheckExpr ==
    /\ Visiting
    /\ get_hint_pep_sign_or_none(hint_curr_meta.hint_or_sane.hint) = "List"
    /\ func_code' = Append(func_code,
           << [kind |-> "isinstance", pith |-> hint_curr_meta.pith_expr,
               types |-> {"list"}, child |-> 0],
              Tok("and"),
              [kind |-> "child", pith |-> "item", types |-> {},
               child |-> Len(hints_meta) + 1] >>)
    /\ hints_meta' = Append(hints_meta,
           [hint_or_sane |->
                sanify_hint_child(
                    get_hint_pep_args(hint_curr_meta.hint_or_sane.hint)[1],
                    hints_conf, hint_curr_meta.hint_or_sane.typevar_to_hint),
            pith_expr |-> "item"])
    /\ hints_meta_index' = hints_meta_index + 1
    /\ UNCHANGED << hints_conf, union_args_cache, func_typed, func_raised,
                    pool >>
    /\ UNCHANGED << cvars, vvars, gvars, pvars >>

\* Every discovered hint was visited: the wrapper is assembled.
MakeFuncTyped ==
    /\ hints_meta_index > Len(hints_meta)
    /\ func_typed' = Append(func_typed,
           [hint |-> hints_meta[1].hint_or_sane.hint, conf |-> hints_conf,
            frames |-> hints_meta, code |-> func_code])
    /\ hints_meta' = << >>
    /\ hints_meta_index' = 0
    /\ func_code' = << >>
    /\ hints_conf' = CONF_DEFAULT
    /\ UNCHANGED << union_args_cache, func_raised, pool >>
    /\ UNCHANGED << cvars, vvars, gvars, pvars >>

NextUnion ==
    \/ \E h \in Hints, c \in Confs : Decorate(h, c)
    \/ MakeHintPep484604CheckExpr
    \/ MakeHintClassCheckExpr
    \/ MakeHintListCheckExpr
    \/ MakeFuncTyped

(***************************************************************************)
(* beartype.vale.IsAttr.  A string is the tuple of its characters; an      *)
(* object is the record of its int value (0 when it is no int) and of the  *)
(* function from the names of its attributes to their values.              *)
(***************************************************************************)
\* Characters of strings: a letter, a digit and the attribute delimiter.
NameChars == {"a", "1", "."}

\* The strings of at most n characters.
Names(n) == UNION { [1..k -> NameChars] : k \in 0..n }

\* A str object and an object that is neither a str, a tuple nor a validator.
ValeStr(chars) == [type |-> "str", chars |-> chars]
ValeInt == [type |-> "int"]

\* Mutant: every string is an identifier.
str_isidentifier_Any(chars) == TRUE

\* str.isidentifier(): a letter followed by letters and digits.
str_isidentifier(chars) ==
    /\ Len(chars) > 0
    /\ chars[1] = "a"
    /\ \A n \in 1..Len(chars) : chars[n] \in {"a", "1"}

\* '.' in attr_name
HasDot(chars) == \E n \in 1..Len(chars) : chars[n] = "."

\* Objects passed to validators: the ints 1 and 2, objects whose attribute
\* "a" may hold an int, and objects whose attributes "a" and "a1" may hold
\* any of these.
PithInt(n) == [int |-> n, attrs |-> << >>]
PithObject(attrs) == [int |-> 0, attrs |-> attrs]
PithInts == { PithInt(1), PithInt(2) }
PithsInner ==
    { PithObject(f) : f \in UNION { [D -> PithInts] :
                                    D \in SUBSET { << "a" >> } } }
Piths ==
    PithInts \cup
    { PithObject(f) : f \in UNION { [D -> PithInts \cup PithsInner] :
                                    D \in SUBSET { << "a" >>, << "a", "1" >> } } }

\* SENTINEL
SENTINEL == [int |-> -1, attrs |-> << >>]

\* Mutant: the attribute of an object that defines none is None.
getattr_OrNone(pith, attr_name, default) ==
    IF attr_name \in DOMAIN pith.attrs THEN pith.attrs[attr_name]
    ELSE PithInt(0)

\* getattr(pith, attr_name, default)
getattr(pith, attr_name, default) ==
    IF attr_name \in DOMAIN pith.attrs THEN pith.attrs[attr_name]
    ELSE default

\* _SubscriptedIs objects: beartype.vale.IsEqual[value] and the validator
\* created at lines 356-361 by IsAttr[attr_name, attr_validator].
IsEqual(value) ==
    [type |-> "_SubscriptedIs", kind |-> "IsEqual", value |-> value]
SubscriptedIs(attr_name, attr_validator) ==
    [type |-> "_SubscriptedIs", kind |-> "IsAttr",
     attr_name |-> attr_name, attr_validator |-> attr_validator]

\* Lines 273-291, validator.is_valid(pith): whether the validator accepts
\* the pith, and how many times the is_valid() of a validator subscripting
\* IsAttr was called on the way.
RECURSIVE is_valid(_, _)
is_valid(validator, pith) ==
    IF validator.kind = "IsEqual"
    THEN [accept |-> pith = validator.value, consulted |-> 0]
    ELSE LET pith_attr == getattr(pith, validator.attr_name, SENTINEL)
         IN  IF pith_attr # SENTINEL
             THEN LET r == is_valid(validator.attr_validator, pith_attr)
                  IN  [accept |-> r.accept, consulted |-> r.consulted + 1]
             ELSE [accept |-> FALSE, consulted |-> 0]

\* Lines 326-335, is_valid_code.format(obj=...): the code in which the
\* placeholder {obj} is replaced by the local variable.  A variable is the
\* tuple of the attribute names suffixing its name: << >> is {obj} and
\* << "a" >> is {obj}_isattr_a.
RECURSIVE CodeFormat(_, _)
CodeFormat(code, local_name_obj_attr_value) ==
    IF code.op = "=="
    THEN [code EXCEPT !.obj = local_name_obj_attr_value \o @]
    ELSE [code EXCEPT !.obj = local_name_obj_attr_value \o @,
                      !.local = local_name_obj_attr_value \o @,
                      !.expr = CodeFormat(@, local_name_obj_attr_value)]

\* Lines 322-343 and VALE_CODE_CHECK_ISATTR (365-371): the code of a
\* validator, "{obj} == value" for IsEqual[value].
RECURSIVE is_valid_code(_)
is_valid_code(validator) ==
    IF validator.kind = "IsEqual"
    THEN [op |-> "==", obj |-> << >>, value |-> validator.value]
    ELSE [op |-> "isattr", obj |-> << >>,
          attr_name_expr |-> validator.attr_name,
          local |-> << validator.attr_name >>,
          expr |-> CodeFormat(is_valid_code(validator.attr_validator),
                              << validator.attr_name >>)]

\* The value of the code under the local variables env:
\* (local := getattr(obj, name, SENTINEL)) is not SENTINEL and expr
RECURSIVE CodeEval(_, _)
CodeEval(code, env) ==
    IF code.op = "=="
    THEN env[code.obj] = code.value
    ELSE LET pith_attr == getattr(env[code.obj], code.attr_name_expr,
                                  SENTINEL)
         IN  /\ pith_attr # SENTINEL
             /\ CodeEval(code.expr, (code.local :> pith_attr) @@ env)

\* Lines 190-361, IsAttr.__class_getitem__(cls, args): the exception raised
\* or the validator returned.
IsAttr_class_getitem(args) ==
    LET Raised(e) == [raised |-> e, validator |-> [type |-> "none"]]
        attr_name == args.items[1]
        attr_validator == args.items[2]
    IN  IF ~args.is_tuple
        THEN Raised("BeartypeValeSubscriptionException")
        ELSE IF Len(args.items) # 2
        THEN Raised("BeartypeValeSubscriptionException")
        ELSE IF attr_name.type # "str"
        THEN Raised("BeartypeValeSubscriptionException")
        ELSE IF Len(attr_name.chars) = 0
        THEN Raised("BeartypeValeSubscriptionException")
        ELSE IF ~HasDot(attr_name.chars)
        THEN IF ~str_isidentifier(attr_name.chars)
             THEN Raised("BeartypeValeSubscriptionException")
             ELSE IF attr_validator.type # "_SubscriptedIs"
             THEN Raised("AttributeError")
             ELSE [raised |-> "none",
                   validator |-> SubscriptedIs(attr_name.chars,
                                               attr_validator)]
        ELSE Raised("BeartypeValeSubscriptionException")

\* Objects subscripting IsAttr: first and second items of tuples.
ValeValidators ==
    { IsEqual(PithInt(1)), IsEqual(PithInt(2)),
      SubscriptedIs(<< "a" >>, IsEqual(PithInt(1))) }
ValeFirsts == { ValeStr(chars) : chars \in Names(MaxNameLen) } \cup { ValeInt }
ValeSeconds == ValeValidators \cup { ValeInt }

\* IsAttr[x] for one object x that is no tuple, IsAttr[()], IsAttr[x,],
\* IsAttr[x, y] and IsAttr[x, y, z].
ValeArgs ==
    { [is_tuple |-> FALSE, items |-> << x >>] :
        x \in ValeFirsts \cup ValeValidators }
    \cup { [is_tuple |-> TRUE, items |-> << >>] }
    \cup { [is_tuple |-> TRUE, items |-> << x >>] : x \in ValeFirsts }
    \cup { [is_tuple |-> TRUE, items |-> << x, y >>] :
             x \in ValeFirsts, y \in ValeSeconds }
    \cup { [is_tuple |-> TRUE, items |-> << x, y, y >>] :
             x \in { ValeStr(<< "a" >>), ValeInt }, y \in ValeSeconds }

\* IsAttr was not subscripted yet: no object subscripts it.
InitVale ==
    /\ vale_args = [is_tuple |-> FALSE, items |-> << >>]
    /\ vale_out = [raised |-> "none", validator |-> [type |-> "none"]]
    /\ vale_pith = PithInt(0)
    /\ vale_verdict = [accept |-> FALSE, consulted |-> 0, code |-> FALSE]

\* IsAttr[args]
Subscript(args) ==
    /\ vale_args' = args
    /\ vale_out' = IsAttr_class_getitem(args)
    /\ vale_pith' = PithInt(0)
    /\ vale_verdict' = [accept |-> FALSE, consulted |-> 0, code |-> FALSE]
    /\ UNCHANGED << cvars, uvars, gvars, pvars >>

\* The validator last created checks the object pith, by its is_valid()
\* and by its code embedded in a wrapper whose pith is that object.
Validate(pith) ==
    /\ vale_out.validator.type = "_SubscriptedIs"
    /\ vale_pith' = pith
    /\ vale_verdict' =
           [accept |-> is_valid(vale_out.validator, pith).accept,
            consulted |-> is_valid(vale_out.validator, pith).consulted,
            code |-> CodeEval(is_valid_code(vale_out.validator),
                              (<< >> :> pith))]
    /\ UNCHANGED << vale_args, vale_out >>
    /\ UNCHANGED << cvars, uvars, gvars, pvars >>

NextVale ==
    \/ \E args \in ValeArgs : Subscript(args)
    \/ \E pith \in Piths : Validate(pith)

(***************************************************************************)
(* is_hint_pep484585_generic.  A class is the name of the module defining  *)
(* it; a hint is the record of what the PEP 484 and PEP 585 testers answer *)
(* on it and of the method resolution order of its unsubscripted generic   *)
(* type, which ends with the builtin object class.                         *)
(***************************************************************************)
\* Modules defining the classes of a method resolution order.
ClassModules == {"user", "typing", "thirdparty"}

\* is_object_module_thirdparty_blacklisted()
is_object_module_thirdparty_blacklisted(hint_base) == hint_base = "thirdparty"

\* The method resolution orders of at most n classes followed by object.
Mros(n) == { mro \o << "builtins" >> :
             mro \in UNION { [1..k -> ClassModules] : k \in 1..n } }

\* Objects passed to the tester.
GenericHints ==
    [is_pep484_generic : BOOLEAN, is_pep585_generic : BOOLEAN,
     mro : Mros(MaxMro)]

\* is_hint_pep484_generic()
is_hint_pep484_generic(hint) == hint.is_pep484_generic

\* is_hint_pep585_generic()
is_hint_pep585_generic(hint) == hint.is_pep585_generic

\* get_hint_pep484585_generic_type(hint).__mro__
get_hint_pep484585_generic_type_mro(hint) == hint.mro

\* Lines 109-129: the loop over the method resolution order from the class
\* of index n on: False at the first blacklisted class, True at the end.
RECURSIVE GenericMroFrom(_, _)
GenericMroFrom(mro, n) ==
    IF n > Len(mro) THEN TRUE
    ELSE IF is_object_module_thirdparty_blacklisted(mro[n]) THEN FALSE
    ELSE GenericMroFrom(mro, n + 1)

\* Mutant: the method resolution order is not inspected.
is_hint_pep484585_generic_AnyMro(hint) ==
    is_hint_pep484_generic(hint) \/ is_hint_pep585_generic(hint)

\* Lines 83-133: is_hint_pep484585_generic(hint)
is_hint_pep484585_generic(hint) ==
    LET is_hint_generic ==
            is_hint_pep484_generic(hint) \/ is_hint_pep585_generic(hint)
    IN  IF is_hint_generic
        THEN GenericMroFrom(get_hint_pep484585_generic_type_mro(hint), 1)
        ELSE FALSE

\* The tester was not called yet: no hint has an empty resolution order.
InitGeneric ==
    /\ generic_hint = [is_pep484_generic |-> FALSE,
                       is_pep585_generic |-> FALSE, mro |-> << >>]
    /\ generic_result = FALSE

\* is_hint_pep484585_generic(hint) is called.
IsHintPep484585Generic(hint) ==
    /\ generic_hint' = hint
    /\ generic_result' = is_hint_pep484585_generic(hint)
    /\ UNCHANGED << cvars, uvars, vvars, pvars >>

NextGeneric == \E hint \in GenericHints : IsHintPep484585Generic(hint)

(***************************************************************************)
(* Concurrent compile requests sharing the pool of typed objects.  A       *)
(* pooled object is a set or a list; a request runs the getter and then    *)
(* the factory on one union, statement by statement where the statements   *)
(* touch the pool or a pooled object.                                      *)
(***************************************************************************)
\* A new object of the class cls: set() or list().
PoolObject(cls) == [cls |-> cls, items |-> {}, list |-> << >>]

\* Mutant: the acquired object is left in the pool of its class.
KeyPoolPopped_Kept(objects) == objects

\* KeyPool.acquire(), under the lock of the pool: the pool of the class
\* after its last object was popped.
KeyPoolPopped(objects) == SubSeq(objects, 1, Len(objects) - 1)

\* acquire_object_typed(cls): the object returned, the last one of the pool
\* of the class or else a new one.
acquire_object_typed_object(key_to_pool, objs, cls) ==
    IF key_to_pool[cls] # << >>
    THEN key_to_pool[cls][Len(key_to_pool[cls])]
    ELSE Len(objs) + 1

\* acquire_object_typed(cls): the pools after the call.
acquire_object_typed_pool(key_to_pool, cls) ==
    IF key_to_pool[cls] # << >>
    THEN [key_to_pool EXCEPT ![cls] = KeyPoolPopped(@)]
    ELSE key_to_pool

\* acquire_object_typed(cls): the objects existing after the call.
acquire_object_typed_objs(key_to_pool, objs, cls) ==
    IF key_to_pool[cls] # << >> THEN objs ELSE Append(objs, PoolObject(cls))

\* release_object_typed(obj), under the lock of the pool: the pools after
\* the object was appended to the pool of its class.
release_object_typed_pool(key_to_pool, objs, obj) ==
    [key_to_pool EXCEPT ![objs[obj].cls] = Append(@, obj)]

\* Whether acquire_object_typed(cls) stays within the bound on objects.
PoolWithinBound(cls) ==
    pool_key_to_pool[cls] # << >> \/ Len(pool_objs) < MaxPooled

\* Unions compiled by the requests.
PoolHints ==
    { Union(<< ListOf(Cls("int")), Union(<< Cls("str"), Cls("int") >>) >>),
      Union(<< Cls("int"), TYPE_UNCHECKABLE >>) }

\* A thread compiling nothing.
RequestIdle ==
    [pc |-> "idle", hint |-> Cls("int"), childs |-> << >>, index |-> 0,
     list |-> 0, nonpep |-> 0, pep |-> 0]

InitPool ==
    /\ pool_key_to_pool = [cls \in {"set", "list"} |-> << >>]
    /\ pool_objs = << >>
    /\ request = [t \in Threads |-> RequestIdle]

\* A thread starts compiling the union hint: make_hint_pep484604_check_expr
\* calls the getter (line 123).
PoolRequest(t, hint) ==
    /\ request[t].pc = "idle"
    /\ request' = [request EXCEPT ![t] =
                      [RequestIdle EXCEPT !.pc = "getter", !.hint = hint]]
    /\ UNCHANGED << pool_key_to_pool, pool_objs >>
    /\ UNCHANGED << cvars, uvars, vvars, gvars >>

\* Lines 383-384: the getter acquires its list.
GetterAcquire(t) ==
    /\ request[t].pc = "getter"
    /\ PoolWithinBound("list")
    /\ request' = [request EXCEPT ![t].pc = "flatten", ![t].list =
           acquire_object_typed_object(pool_key_to_pool, pool_objs, "list")]
    /\ pool_key_to_pool' = acquire_object_typed_pool(pool_key_to_pool, "list")
    /\ pool_objs' =
           acquire_object_typed_objs(pool_key_to_pool, pool_objs, "list")
    /\ UNCHANGED << cvars, uvars, vvars, gvars >>

\* Lines 385-478: the getter clears its list and appends the flattened child
\* hints to it.
GetterFlatten(t) ==
    /\ request[t].pc = "flatten"
    /\ pool_objs' = [pool_objs EXCEPT ![request[t].list].list =
           FlattenFrom(get_hint_pep_args(request[t].hint), 1, CONF_DEFAULT,
                       "empty", << >>)]
    /\ request' = [request EXCEPT ![t].pc = "freeze"]
    /\ UNCHANGED pool_key_to_pool
    /\ UNCHANGED << cvars, uvars, vvars, gvars >>

\* Lines 483-490: the getter freezes its list into a tuple, releases the
\* list and returns the tuple.
GetterReturn(t) ==
    /\ request[t].pc = "freeze"
    /\ request' = [request EXCEPT ![t].pc = "make", ![t].list = 0,
                      ![t].childs = pool_objs[request[t].list].list]
    /\ pool_key_to_pool' =
           release_object_typed_pool(pool_key_to_pool, pool_objs,
                                     request[t].list)
    /\ UNCHANGED pool_objs
    /\ UNCHANGED << cvars, uvars, vvars, gvars >>

\* Lines 135-136: the factory acquires hint_childs_nonpep.
MakeAcquireNonpep(t) ==
    /\ request[t].pc = "make"
    /\ PoolWithinBound("set")
    /\ request' = [request EXCEPT ![t].pc = "nonpep", ![t].nonpep =
           acquire_object_typed_object(pool_key_to_pool, pool_objs, "set")]
    /\ pool_key_to_pool' = acquire_object_typed_pool(pool_key_to_pool, "set")
    /\ pool_objs' =
           acquire_object_typed_objs(pool_key_to_pool, pool_objs, "set")
    /\ UNCHANGED << cvars, uvars, vvars, gvars >>

\* Lines 137-138: the factory acquires hint_or_sane_childs_pep.
MakeAcquirePep(t) ==
    /\ request[t].pc = "nonpep"
    /\ PoolWithinBound("set")
    /\ request' = [request EXCEPT ![t].pc = "pep", ![t].pep =
           acquire_object_typed_object(pool_key_to_pool, pool_objs, "set")]
    /\ pool_key_to_pool' = acquire_object_typed_pool(pool_key_to_pool, "set")
    /\ pool_objs' =
           acquire_object_typed_objs(pool_key_to_pool, pool_objs, "set")
    /\ UNCHANGED << cvars, uvars, vvars, gvars >>

\* Lines 141-142: the factory clears both sets.
MakeClear(t) ==
    /\ request[t].pc = "pep"
    /\ pool_objs' = [n \in 1..Len(pool_objs) |->
           IF n \in {request[t].nonpep, request[t].pep}
           THEN [pool_objs[n] EXCEPT !.items = {}]
           ELSE pool_objs[n]]
    /\ request' = [request EXCEPT ![t].pc = "filter", ![t].index = 1]
    /\ UNCHANGED pool_key_to_pool
    /\ UNCHANGED << cvars, uvars, vvars, gvars >>

\* Lines 149-182: one iteration of the loop filtering the child hints into
\* the two sets.
MakeFilter(t) ==
    /\ request[t].pc = "filter"
    /\ LET hint_or_sane_child == request[t].childs[request[t].index]
           hint_child == get_hint_or_sane_hint(hint_or_sane_child)
       IN  pool_objs' =
               IF is_hint_pep(hint_child)
               THEN [pool_objs EXCEPT ![request[t].pep].items =
                        @ \cup {hint_or_sane_child}]
               ELSE [pool_objs EXCEPT ![request[t].nonpep].items =
                        @ \cup {hint_child}]
    /\ request' = [request EXCEPT
           ![t].index = @ + 1,
           ![t].pc = IF request[t].index = Len(request[t].childs)
                     THEN "emit" ELSE "filter"]
    /\ UNCHANGED pool_key_to_pool
    /\ UNCHANGED << cvars, uvars, vvars, gvars >>

\* Lines 187-233: add_func_scope_type_or_types() raises while the code of
\* the PEP-noncompliant child hints is generated: the request ends, the two
\* sets are not released.
MakeRaise(t) ==
    /\ request[t].pc = "emit"
    /\ add_func_scope_type_or_types_raises(pool_objs[request[t].nonpep].items)
    /\ request' = [request EXCEPT ![t] = RequestIdle]
    /\ UNCHANGED << pool_key_to_pool, pool_objs >>
    /\ UNCHANGED << cvars, uvars, vvars, gvars >>

\* Lines 187-282: the code of the union is generated from the two sets and
\* hint_childs_nonpep is released.
MakeReleaseNonpep(t) ==
    /\ request[t].pc = "emit"
    /\ ~add_func_scope_type_or_types_raises(
           pool_objs[request[t].nonpep].items)
    /\ pool_key_to_pool' =
           release_object_typed_pool(pool_key_to_pool, pool_objs,
                                     request[t].nonpep)
    /\ request' = [request EXCEPT ![t].pc = "release", ![t].nonpep = 0]
    /\ UNCHANGED pool_objs
    /\ UNCHANGED << cvars, uvars, vvars, gvars >>

\* Lines 283-299: hint_or_sane_childs_pep is released and the factory
\* returns.
MakeReleasePep(t) ==
    /\ request[t].pc = "release"
    /\ pool_key_to_pool' =
           release_object_typed_pool(pool_key_to_pool, pool_objs,
                                     request[t].pep)
    /\ request' = [request EXCEPT ![t] = RequestIdle]
    /\ UNCHANGED pool_objs
    /\ UNCHANGED << cvars, uvars, vvars, gvars >>

NextPool ==
    \/ \E t \in Threads, hint \in PoolHints : PoolRequest(t, hint)
    \/ \E t \in Threads : GetterAcquire(t)
    \/ \E t \in Threads : GetterFlatten(t)
    \/ \E t \in Threads : GetterReturn(t)
    \/ \E t \in Threads : MakeAcquireNonpep(t)
    \/ \E t \in Threads : MakeAcquirePep(t)
    \/ \E t \in Threads : MakeClear(t)
    \/ \E t \in Threads : MakeFilter(t)
    \/ \E t \in Threads : MakeRaise(t)
    \/ \E t \in Threads : MakeReleaseNonpep(t)
    \/ \E t \in Threads : MakeReleasePep(t)

(***************************************************************************)
(* Specifications.                                                         *)
(***************************************************************************)
\* The state after importing beartype.
Init == InitConf /\ InitUnion /\ InitVale /\ InitGeneric /\ InitPool

\* Threads constructing configurations.
Spec == Init /\ [][Next]_vars

\* Callables being decorated, one after the other.
InitDecor == Init /\ shell_var = "unset"
SpecUnion == InitDecor /\ [][NextUnion]_vars

\* IsAttr being subscripted and the validators it creates being called.
SpecVale == InitDecor /\ [][NextVale]_vars

\* is_hint_pep484585_generic being called.
SpecGeneric == InitDecor /\ [][NextGeneric]_vars

\* Two threads compiling unions concurrently.
SpecPool == InitDecor /\ [][NextPool]_vars

(***************************************************************************)
(* Properties of the configuration cache.                                  *)
(***************************************************************************)
\* Thread t has returned a configuration from BeartypeConf(...).
Returned(t) == pc[t] = "done" /\ result[t] # 0

\* C1: when a call of BeartypeConf(...) returns while an earlier call that
\* passed the same six parameter values still holds its returned object, the
\* later call returns that identical object and initialises no new instance.
C1_SameArgsSameObject ==
    [][ \A t, u \in Threads :
          ( /\ u # t
            /\ Returned(u)
            /\ pc[t] # "done" /\ pc'[t] = "done" /\ result'[t] # 0
            /\ conf_args'[t] = conf_args[u] )
          => (result'[t] = result[u] /\ confs' = confs) ]_vars

\* The second of two calls with the same non-default parameters has returned
\* the object that the first call created.
C1_Witness ==
    \E t, u \in Threads :
        /\ t # u /\ Returned(t) /\ Returned(u)
        /\ conf_args[t] = conf_args[u] /\ conf_args[t] # DefaultArgs
        /\ result[t] = result[u] /\ result[t] > 1

\* C2 (as stated): any two configurations whose six stored field values are
\* identical are the same object.
C2_SameFieldsSameObject ==
    \A i, j \in 1..Len(confs) :
        Repr(confs[i]) = Repr(confs[j]) => i = j

\* C3: under every interleaving of the threads, at most one instance exists
\* per parameter tuple, at most one thread is between the cache lookup and
\* the cache insertion, and all threads that passed the same parameters
\* hold the same instance.
C3_OneInstancePerArgs ==
    /\ \A i, j \in 1..Len(confs) :
           ArgsEq(confs[i]._conf_args, confs[j]._conf_args) => i = j
    /\ \A t, u \in Threads :
           (pc[t] = "new" /\ pc[u] = "new") => t = u
    /\ \A t, u \in Threads :
           (Returned(t) /\ Returned(u) /\ ArgsEq(conf_args[t], conf_args[u]))
           => result[t] = result[u]

\* A contended first use: one thread holds the lock between lookup and
\* insertion while the other waits for the lock with the same parameters,
\* which are not cached yet.
C3_Witness ==
    \E t, u \in Threads :
        /\ pc[t] = "new" /\ pc[u] = "lock"
        /\ conf_args[t] = conf_args[u]
        /\ ~ConfCached(beartype_conf_args_to_conf, conf_args[t])

\* C4 (as stated): every call passing an invalid parameter value raises
\* BeartypeConfException, whatever is cached.
C4_InvalidArgsRaise ==
    \A t \in Threads :
        (pc[t] = "done" /\ ~ArgsValid(conf_args[t]))
        => raised[t] = "BeartypeConfException"

\* C5: cache entries are never evicted or replaced, and BeartypeConf() with
\* no parameters always returns the BEARTYPE_CONF_DEFAULT singleton (object
\* 1, created at import).
C5_NeverEvicted ==
    /\ [][ \A k \in DOMAIN beartype_conf_args_to_conf :
             /\ k \in DOMAIN beartype_conf_args_to_conf'
             /\ beartype_conf_args_to_conf'[k] = beartype_conf_args_to_conf[k]
         ]_vars
    /\ [](\A t \in Threads :
             (pc[t] = "done" /\ conf_args[t] = DefaultArgs)
             => (result[t] = 1 /\ raised[t] = "none"))

\* BeartypeConf() has returned the default singleton after another
\* configuration was cached.
C5_Witness ==
    /\ Cardinality(DOMAIN beartype_conf_args_to_conf) > 1
    /\ \E t \in Threads :
           Returned(t) /\ conf_args[t] = DefaultArgs /\ result[t] = 1

\* C6 (as stated): calling the constructor with the keyword values printed
\* by repr(c) returns exactly the object c.
C6_ReprRoundTrip ==
    \A t \in Threads : \A i \in 1..Len(confs) :
        (pc[t] = "done" /\ conf_args[t] = Repr(confs[i]))
        => result[t] = i

\* A call of thread t completes in this step.
Completes(t) == pc[t] # "done" /\ pc'[t] = "done"

\* C22: a call with valid parameters completing while ${BEARTYPE_IS_COLOR}
\* is set to a recognized value returns a configuration whose is_color is
\* the value mapped from the variable, and such a call completing while the
\* variable is set to an unrecognized string raises
\* BeartypeConfShellVarException.
C22_ShellVarOverrides ==
    [][\A t \in Threads :
         Completes(t) /\ ArgsValid(conf_args[t]) /\ shell_var # "unset" =>
             IF shell_var \in ShellVarRecognized
             THEN result'[t] # 0 => confs'[result'[t]]._is_color = shell_var
             ELSE raised'[t] = "BeartypeConfShellVarException"]_vars

\* The instances allocated by calls that raised.
UnsetInstances == { 0 - n : n \in 1..conf_unset }

\* C25: a call that raises leaves beartype_conf_args_to_conf unchanged and
\* beartype_conf_lock released; the lock is held only by a thread between
\* lookup and insertion, no instance allocated by a call that raised is
\* cached, and every configuration returned is a cached one.
C25_RaiseLeavesCacheAndLock ==
    /\ [][ \A t \in Threads :
             (raised[t] = "none" /\ raised'[t] # "none")
             => /\ beartype_conf_args_to_conf' = beartype_conf_args_to_conf
                /\ beartype_conf_lock' = 0 ]_vars
    /\ [](/\ beartype_conf_lock # 0 => pc[beartype_conf_lock] = "new"
          /\ \A k \in DOMAIN beartype_conf_args_to_conf :
                 beartype_conf_args_to_conf[k] \notin UnsetInstances
          /\ \A t \in Threads :
                 Returned(t) =>
                     \E k \in DOMAIN beartype_conf_args_to_conf :
                         beartype_conf_args_to_conf[k] = result[t])

\* A call raised BeartypeConfShellVarException after allocating its instance
\* and, once the variable was changed, the other thread passed the same
\* parameters, entered the lock and was returned a new configuration.
C25_Witness ==
    \E t, u \in Threads :
        /\ raised[t] = "BeartypeConfShellVarException"
        /\ conf_unset = 1
        /\ beartype_conf_lock = 0
        /\ Returned(u) /\ conf_args[u] = conf_args[t]
        /\ result[u] = 2

Wrappers == 1..Len(func_typed)

\* The verdict a wrapper must give on v for its hint.
Expected(func, v) ==
    IF Satisfies(v, func.hint, func.conf) THEN "accept" ELSE "reject"

\* C7: two callables annotated by the same hint and decorated one after the
\* other under the same configuration get wrappers with the same behaviour:
\* both give the same verdict on every value and, decorated by @beartype
\* under the default configuration, both accept every value satisfying the
\* hint and reject every other value.
C7_SameHintSameVerdict ==
    \A i, j \in Wrappers :
        ( /\ func_typed[i].hint = func_typed[j].hint
          /\ func_typed[i].conf = func_typed[j].conf )
        => \A v \in PithValues :
               /\ Verdict(func_typed[i], v) = Verdict(func_typed[j], v)
               /\ func_typed[j].conf = CONF_DEFAULT
                  => Verdict(func_typed[j], v) = Expected(func_typed[j], v)

\* Two callables annotated by the same union with a shallow and a composite
\* child were decorated; the second reused the memoized flattening.
C7_Witness ==
    /\ Len(func_typed) = 2
    /\ func_typed[1].hint = func_typed[2].hint
    /\ func_typed[1].hint = Union(<< Cls("int"), ListOf(Cls("int")) >>)
    /\ func_typed[1].conf = CONF_DEFAULT /\ func_typed[2].conf = CONF_DEFAULT
    /\ \E e \in union_args_cache : e.hint = func_typed[1].hint

\* The union frames of a wrapper.
UnionFrames(func) ==
    { k \in 1..Len(func.frames) :
        func.frames[k].hint_or_sane.hint.sign \in HINT_SIGNS_UNION }

\* The flattened child hints of the union of frame k.
FlattenedOf(func, k) ==
    UnionArgsFlattened(func.frames[k].hint_or_sane.hint, func.conf,
                       func.frames[k].hint_or_sane.typevar_to_hint)

\* Whether the flattened alternative x of the union of frame k accepts v: a
\* shallow alternative by isinstance(), a composite one by the sub-check
\* enqueued for it.
AlternativeAccepts(func, k, x, v) ==
    IF is_hint_pep(x.hint)
    THEN \E n \in 1..Len(func.code[k]) :
            /\ func.code[k][n].kind = "child"
            /\ func.frames[func.code[k][n].child].hint_or_sane = x
            /\ EvalFrame(func.code, func.code[k][n].child, v) = "accept"
    ELSE IsInstance(v, x.hint.name)

\* C8: the expression generated for a union accepts a value if and only if
\* at least one flattened child alternative accepts it, rejects it
\* otherwise, holds at most one isinstance() test, which lists all shallow
\* alternatives, and has no " or" left before the suffix.
C8_UnionAcceptsIffSomeChild ==
    \A i \in Wrappers : \A k \in UnionFrames(func_typed[i]) :
        LET func == func_typed[i]
            c == func.code[k]
            childs == FlattenedOf(func, k)
            shallow == { x \in Range(childs) : ~is_hint_pep(x.hint) }
            tests == { n \in 1..Len(c) : c[n].kind = "isinstance" }
        IN  /\ c[Len(c)].kind = ")" /\ c[Len(c) - 1].kind # "or"
            /\ Cardinality(tests) = (IF shallow = {} THEN 0 ELSE 1)
            /\ \A n \in tests : c[n].types = { x.hint.name : x \in shallow }
            /\ \A v \in PithValues :
                   EvalFrame(func.code, k, v) =
                       IF \E x \in Range(childs) :
                              AlternativeAccepts(func, k, x, v)
                       THEN "accept" ELSE "reject"

\* The wrapper of Union(int, str) accepts 5 and "x" and rejects 1.5.
C8_Witness ==
    \E i \in Wrappers :
        /\ func_typed[i].hint = Union(<< Cls("int"), Cls("str") >>)
        /\ Verdict(func_typed[i], "5") = "accept"
        /\ Verdict(func_typed[i], "x") = "accept"
        /\ Verdict(func_typed[i], "1.5") = "reject"

\* The direct child hints of a union, sanified.
SanifiedChilds(hint, c) ==
    [ n \in 1..Len(hint.args) |-> sanify_hint_child(hint.args[n], c, "empty") ]

\* Whether x is a union.
IsUnion(x) == x.hint.sign \in HINT_SIGNS_UNION

\* C9 (as stated): the tuple returned for a union never contains a union.
C9_NoUnionAtDepth1 ==
    \A e \in union_args_cache :
        \A n \in 1..Len(e.value) : ~IsUnion(e.value[n])

\* The number of child hints after replacing each child union by its own
\* child hints.
RECURSIVE FlatLen(_, _)
FlatLen(childs, n) ==
    IF n > Len(childs) THEN 0
    ELSE FlatLen(childs, n + 1) +
         (IF IsUnion(childs[n]) THEN Len(childs[n].hint.args) ELSE 1)

\* C9 (amended): every direct child that is (or is sanified into) a union is
\* replaced by that union's own children, so that the returned tuple holds
\* no union at depth 1 unless a child union has itself a union child, and
\* every union it holds is such a grandchild; Union(int, Union(str, float))
\* flattens to exactly 3 children.
C9_ChildUnionsExpanded ==
    \A e \in union_args_cache :
        LET childs == SanifiedChilds(e.hint, e.conf)
            grand == { g \in UNION { Range(childs[n].hint.args) :
                                     n \in 1..Len(childs) } :
                         g.sign \in HINT_SIGNS_UNION }
        IN  /\ Len(e.value) = FlatLen(childs, 1)
            /\ \A n \in 1..Len(e.value) :
                   IsUnion(e.value[n]) => e.value[n].hint \in grand
            /\ grand = {} => \A n \in 1..Len(e.value) : ~IsUnion(e.value[n])
            /\ (e.hint = UnionNested(Cls("int"), Cls("str"), Cls("float"))
                /\ e.conf = CONF_DEFAULT)
               => Len(e.value) = 3

\* Union(int, Union(str, float)) was flattened to 3 children, none a union.
C9_Witness ==
    \E e \in union_args_cache :
        /\ e.hint = UnionNested(Cls("int"), Cls("str"), Cls("float"))
        /\ \E n \in 1..Len(e.hint.args) : e.hint.args[n].sign = "Union"
        /\ Len(e.value) = 3
        /\ \A n \in 1..3 : ~IsUnion(e.value[n])

\* C10 (as stated): the wrappers generated for Union(A, Union(B, C)) and for
\* Union(A, B, C) under one configuration give the same verdict on every
\* value.
C10_FlatteningPreservesVerdict ==
    \A i, j \in Wrappers :
        \A a \in HintsA, b \in HintsB, c \in HintsC :
            ( /\ func_typed[i].hint = UnionNested(a, b, c)
              /\ func_typed[j].hint = UnionFlat(a, b, c)
              /\ func_typed[i].conf = func_typed[j].conf )
            => \A v \in PithValues :
                   Verdict(func_typed[i], v) = Verdict(func_typed[j], v)

\* C11 (as stated): for every union with an ignorable child that the union
\* code factory compiles, the code of the union stays the bare prefix (no
\* type-checking code is emitted) and the wrapper accepts every value.
C11_IgnorableUnionNoCode ==
    \A i \in Wrappers : \A k \in UnionFrames(func_typed[i]) :
        (\E x \in Range(FlattenedOf(func_typed[i], k)) :
             x.hint \in HINTS_IGNORABLE_SHALLOW)
        => /\ func_typed[i].code[k] = CODE_PEP484604_UNION_PREFIX
           /\ \A v \in PithValues :
                  EvalFrame(func_typed[i].code, k, v) = "accept"

\* C12 (as stated): when an invocation of the union code factory ends,
\* normally or by an exception, every object it acquired from the pool has
\* been released: objects acquired = objects released.
C12_PoolBalanced == pool.acquired = pool.released

\* The hint whose visit raised the exception of the abandoned decoration r.
RaisedOn(r) == r.frames[r.index].hint_or_sane.hint

\* Whether the hint h is a union without children.
IsChildlessUnion(h) ==
    get_hint_pep_sign_or_none(h) \in HINT_SIGNS_UNION
    /\ Len(get_hint_pep_args(h)) = 0

\* The placeholders of child hints in the code written for a decoration.
ChildToks(code) ==
    { << k, n >> \in (1..Len(code)) \X (1..3) :
        n <= Len(code[k]) /\ code[k][n].kind = "child" }

C14_MemoPerUnionAndConf ==
    \A e1, e2 \in union_args_cache :
        (e1.hint = e2.hint /\ e1.conf = e2.conf) => e1 = e2

\* The positions of the tokens of this kind in the code c.
TokensOf(c, kind) == { n \in 1..Len(c) : c[n].kind = kind }

\* The distinct PEP-compliant flattened child hints of the union of frame k.
CompositeOf(func, k) ==
    { x \in Range(FlattenedOf(func, k)) : is_hint_pep(x.hint) }

\* The distinct PEP-noncompliant flattened child hints of the union of
\* frame k.
ShallowOf(func, k) ==
    { x \in Range(FlattenedOf(func, k)) : ~is_hint_pep(x.hint) }

\* C15: in the code of a union the single isinstance() test of the shallow
\* children is the first sub-expression and precedes the sub-expression of
\* every composite child, each composite child has exactly one
\* sub-expression, and a union without shallow children has no isinstance()
\* test.
C15_ShallowTestFirst ==
    \A i \in Wrappers : \A k \in UnionFrames(func_typed[i]) :
        LET func == func_typed[i]
            c == func.code[k]
            tests == TokensOf(c, "isinstance")
            childs == TokensOf(c, "child")
        IN  /\ tests = (IF ShallowOf(func, k) = {} THEN {} ELSE {2})
            /\ \A t \in tests, n \in childs : t < n
            /\ Cardinality(childs) = Cardinality(CompositeOf(func, k))
            /\ \A x \in CompositeOf(func, k) :
                   Cardinality({ n \in childs :
                       func.frames[c[n].child].hint_or_sane = x }) = 1

\* The code of Union(int, list[int]) tests isinstance() first and then the
\* one sub-expression of list[int]; the code of Union(list[str], list[int])
\* has two sub-expressions and no isinstance() test.
C15_Witness ==
    /\ Len(func_typed) = 2
    /\ func_typed[1].hint = Union(<< Cls("int"), ListOf(Cls("int")) >>)
    /\ func_typed[1].code[1][2].kind = "isinstance"
    /\ func_typed[1].code[1][4].kind = "child"
    /\ func_typed[2].hint = Union(<< ListOf(Cls("str")), ListOf(Cls("int")) >>)
    /\ TokensOf(func_typed[2].code[1], "child") = {2, 4}

\* C16: in the code of a union with a composite child exactly one
\* sub-expression binds the pith to its local variable, it is the first
\* sub-expression, and every later one reads that variable; each composite
\* child is enqueued with the pith expression of its sub-expression; the
\* code of a union with shallow children only uses the plain pith
\* expression.
C16_PithBoundOnce ==
    \A i \in Wrappers : \A k \in UnionFrames(func_typed[i]) :
        LET func == func_typed[i]
            c == func.code[k]
            subs == TokensOf(c, "isinstance") \cup TokensOf(c, "child")
        IN  /\ \A n \in TokensOf(c, "child") :
                   func.frames[c[n].child].pith_expr = c[n].pith
            /\ IF CompositeOf(func, k) # {}
               THEN /\ { n \in subs : c[n].pith = "assign" } = {2}
                    /\ \A n \in subs : n > 2 => c[n].pith = "var"
               ELSE \A n \in subs : c[n].pith = "expr"

\* The code of Union(list[str], list[int]) binds the pith in the
\* sub-expression of its first composite child and reads the variable in the
\* second; the code of Union(int, str) uses the plain pith expression.
C16_Witness ==
    \E i, j \in Wrappers :
        /\ func_typed[i].hint = Union(<< ListOf(Cls("str")), ListOf(Cls("int")) >>)
        /\ func_typed[i].code[1][2].pith = "assign"
        /\ func_typed[i].code[1][4].pith = "var"
        /\ func_typed[j].hint = Union(<< Cls("int"), Cls("str") >>)
        /\ func_typed[j].code[1][2].pith = "expr"

Discovered(x) ==
    IF IsUnion(x)
    THEN [ n \in 1..Len(x.hint.args) |-> [x EXCEPT !.hint = x.hint.args[n]] ]
    ELSE << x >>

\* The concatenation of the contributions of the first n direct children.
RECURSIVE DiscoveryOrder(_, _)
DiscoveryOrder(childs, n) ==
    IF n = 0 THEN << >>
    ELSE DiscoveryOrder(childs, n - 1) \o Discovered(childs[n])

\* C18: the tuple returned by the getter is the concatenation, over the
\* sanified direct children in their order, of the child itself or of the
\* children of the child union in their order: no child is dropped or
\* reordered.
C18_DiscoveryOrder ==
    \A e \in union_args_cache :
        e.value = DiscoveryOrder(SanifiedChilds(e.hint, e.conf),
                                 Len(e.hint.args))

\* Union(list[int], Union(str, float)) was flattened to (list[int], str,
\* float), in this order.
C18_Witness ==
    \E e \in union_args_cache :
        /\ e.hint = UnionNested(ListOf(Cls("int")), Cls("str"), Cls("float"))
        /\ e.conf = CONF_DEFAULT
        /\ e.value = << Sane(ListOf(Cls("int")), "empty"),
                        Sane(Cls("str"), "empty"), Sane(Cls("float"), "empty") >>

\* The hints a union's sanified direct child hints contribute from child n
\* on, each visited once: a child union its own child hints as they are,
\* any other child itself.
RECURSIVE OneLevelFrom(_, _)
OneLevelFrom(childs, n) ==
    IF n > Len(childs) THEN << >>
    ELSE (IF IsUnion(childs[n]) THEN childs[n].hint.args
          ELSE << childs[n].hint >>) \o OneLevelFrom(childs, n + 1)

\* C23: the tuple returned for a union holds, in one pass over its sanified
\* direct child hints, each child that is no union and the child hints of
\* each child union as they are: a union nested two levels deep stays a
\* union and a float two levels deep is not expanded to float | int.
C23_FlatteningOneLevel ==
    \A e \in union_args_cache :
        LET childs == SanifiedChilds(e.hint, e.conf)
        IN  /\ [n \in 1..Len(e.value) |-> e.value[n].hint] =
                   OneLevelFrom(childs, 1)
            /\ \A n \in 1..Len(childs) :
                   IsUnion(childs[n]) =>
                       \A k \in 1..Len(childs[n].hint.args) :
                           \E m \in 1..Len(e.value) :
                               e.value[m].hint = childs[n].hint.args[k]

\* Union(int, Union(str, Union(float, list[int]))) was flattened under the
\* configuration is_pep484_tower: the union Union(float, list[int]), two
\* levels deep, is the last of the three child hints returned, and its float
\* was not expanded.
C23_Witness ==
    \E e \in union_args_cache :
        /\ e.conf.is_pep484_tower = "True"
        /\ e.hint.args[1] = Cls("int")
        /\ e.hint.args[2].sign = "Union"
        /\ e.hint.args[2].args[2].sign = "Union"
        /\ Len(e.value) = 3
        /\ e.value[3].hint =
               Union(<< Cls("float"), ListOf(Cls("int")) >>)

\* The sub-expressions, over all frames of a wrapper, that check the child
\* frame j.
EnqueuedBy(func, j) ==
    { kn \in UNION { { << k, n >> : n \in TokensOf(func.code[k], "child") } :
                      k \in 1..Len(func.code) } :
        func.code[kn[1]][kn[2]].child = j }

\* C24: whatever child hints the flattened tuple of a union repeats, its
\* code has at most one isinstance() test, which lists exactly the distinct
\* shallow child hints, and one sub-expression and one enqueued frame per
\* distinct composite child hint; no frame is enqueued for a shallow child
\* hint, and every frame but the root was enqueued once.
C24_AlternativesDeduplicated ==
    \A i \in Wrappers :
        LET func == func_typed[i]
        IN  /\ \A j \in 2..Len(func.frames) :
                   Cardinality(EnqueuedBy(func, j)) = 1
            /\ \A k \in UnionFrames(func) :
                   LET c == func.code[k]
                       tests == TokensOf(c, "isinstance")
                       childs == TokensOf(c, "child")
                   IN  /\ Cardinality(tests) <= 1
                       /\ UNION { c[n].types : n \in tests } =
                              { x.hint.name : x \in ShallowOf(func, k) }
                       /\ { func.frames[c[n].child].hint_or_sane :
                               n \in childs } = CompositeOf(func, k)
                       /\ Cardinality(childs) =
                              Cardinality(CompositeOf(func, k))

\* Union(int, float) was compiled under is_pep484_tower from the flattened
\* tuple (int, float, int) into one isinstance() test of int and float and
\* no child frame, and Union(list[int], Union(str, list[int])) from the
\* tuple (list[int], str, list[int]) into one test of str and the one
\* sub-expression of the one child frame enqueued for list[int].
C24_Witness ==
    \E i, j \in Wrappers :
        /\ func_typed[i].hint = Union(<< Cls("int"), Cls("float") >>)
        /\ func_typed[i].conf.is_pep484_tower = "True"
        /\ Len(FlattenedOf(func_typed[i], 1)) = 3
        /\ func_typed[i].code[1][2].types = {"int", "float"}
        /\ Len(func_typed[i].frames) = 1
        /\ func_typed[j].hint =
               UnionNested(ListOf(Cls("int")), Cls("str"), ListOf(Cls("int")))
        /\ Len(FlattenedOf(func_typed[j], 1)) = 3
        /\ func_typed[j].code[1][2].types = {"str"}
        /\ TokensOf(func_typed[j].code[1], "child") = {4}
        /\ func_typed[j].frames[2].hint_or_sane.hint = ListOf(Cls("int"))

(***************************************************************************)
(* Properties of the attribute validator factory.                          *)
(***************************************************************************)
\* IsAttr was subscripted.
Subscripted == vale_args.is_tuple \/ Len(vale_args.items) > 0

\* A valid unqualified Python identifier over the characters of the model.
IsIdentifier(chars) ==
    /\ chars # << >>
    /\ chars[1] = "a"
    /\ \A n \in 1..Len(chars) : chars[n] # "."

\* C19: IsAttr[...] raises BeartypeValeSubscriptionException and returns no
\* validator when it is subscripted by anything but exactly two arguments
\* (one object that is no tuple, the empty tuple, a tuple of one or of three
\* items) or when the first of two arguments is no string, is the empty
\* string, is no valid Python identifier or contains a '.'.
C19_InvalidSubscriptionRaises ==
    LET items == vale_args.items
    IN  ( /\ Subscripted
          /\ \/ ~vale_args.is_tuple
             \/ Len(items) # 2
             \/ items[1].type # "str"
             \/ ~IsIdentifier(items[1].chars) )
        => /\ vale_out.raised = "BeartypeValeSubscriptionException"
           /\ vale_out.validator.type = "none"

\* IsAttr['1', IsEqual[1]], whose first argument is a non-empty string
\* without '.' that is no identifier, raised the exception.
C19_Witness ==
    /\ vale_args = [is_tuple |-> TRUE,
                    items |-> << ValeStr(<< "1" >>), IsEqual(PithInt(1)) >>]
    /\ vale_out.raised = "BeartypeValeSubscriptionException"

\* Whether the object pith satisfies the validator.
RECURSIVE Accepts(_, _)
Accepts(validator, pith) ==
    IF validator.kind = "IsEqual" THEN pith = validator.value
    ELSE /\ validator.attr_name \in DOMAIN pith.attrs
         /\ Accepts(validator.attr_validator,
                    pith.attrs[validator.attr_name])

C21_GenericIffNoneBlacklisted ==
    generic_hint.mro # << >>
    => ( generic_result
         <=> /\ generic_hint.is_pep484_generic
                \/ generic_hint.is_pep585_generic
             /\ \A n \in 1..Len(generic_hint.mro) :
                    generic_hint.mro[n] # "thirdparty" )

\* A PEP 585 generic whose second superclass is blacklisted was tested and
\* the tester returned False.
C21_Witness ==
    /\ generic_hint.is_pep585_generic /\ ~generic_hint.is_pep484_generic
    /\ generic_hint.mro = << "user", "typing", "thirdparty", "builtins" >>
    /\ ~generic_result

(***************************************************************************)
(* Properties of the pool of typed objects.                                *)
(***************************************************************************)
\* The pooled objects a request holds between acquiring and releasing them.
Held(t) == {request[t].list, request[t].nonpep, request[t].pep} \ {0}

\* The objects lying in the pool.
Pooled == Range(pool_key_to_pool["set"]) \cup Range(pool_key_to_pool["list"])

\* The child hints a request has filtered so far.
Filtered(t) ==
    IF request[t].pc = "filter"
    THEN SubSeq(request[t].childs, 1, request[t].index - 1)
    ELSE request[t].childs

\* C27: under every interleaving of two requests no pooled set or list is
\* held by both, no held object lies in the pool, the two sets of one
\* request are distinct objects, and from the clearing of its sets to their
\* release the sets of a request hold the child hints of its own union
\* filtered so far and nothing else, as its list holds the flattened child
\* hints of its own union.
C27_PooledObjectsOwnedByOne ==
    /\ \A t, u \in Threads : t # u => Held(t) \cap Held(u) = {}
    /\ \A t \in Threads :
           /\ Held(t) \cap Pooled = {}
           /\ request[t].nonpep # 0 => request[t].nonpep # request[t].pep
           /\ request[t].pc \in {"filter", "emit"} =>
                  /\ pool_objs[request[t].nonpep].items =
                         HintChildsNonpep(Filtered(t))
                  /\ pool_objs[request[t].pep].items =
                         HintOrSaneChildsPep(Filtered(t))
           /\ request[t].pc = "release" =>
                  pool_objs[request[t].pep].items =
                      HintOrSaneChildsPep(request[t].childs)
           /\ request[t].pc = "freeze" =>
                  pool_objs[request[t].list].list =
                      UnionArgsFlattened(request[t].hint, CONF_DEFAULT,
                                         "empty")

\* Two requests compile different unions at the same time, one generating
\* code from its two sets while the other is filtering its second child
\* hint into its own two sets, after both took the one list of the pool in
\* turn.
C27_Witness ==
    \E t, u \in Threads :
        /\ request[t].pc = "emit" /\ request[u].pc = "filter"
        /\ request[u].index = 2
        /\ request[t].hint # request[u].hint
        /\ Cardinality(Held(t) \cup Held(u)) = 4
        /\ Len(pool_objs) = 5
        /\ Len(pool_key_to_pool["list"]) = 1

====
